---- MODULE Spec2Model ----
(***************************************************************************)
(* Model of the retrieval-augmented answering pipeline of                  *)
(* tunisia-archaeological-chatbot: RAGChatbot (src/rag.py) and the         *)
(* ingestion run (src/ingest.py).                                          *)
(*                                                                         *)
(* Text is a sequence of one-character strings (or of opaque tokens for    *)
(* fixed pieces of text such as the system prompt).  Python's None is the  *)
(* empty sequence and a present optional value v is <<v>>.  Distances are  *)
(* counted in 1/10000 and relevances in 1/1000.                             *)
(***************************************************************************)
EXTENDS Integers, Sequences, FiniteSets, TLC

\* ------------------------------------------------------------------------
\* Program constants (src/rag.py)
\* ------------------------------------------------------------------------
DEFAULT_TOP_K == 5
MAX_HISTORY_MESSAGES == 6
MAX_INPUT_LENGTH == 500

\* Program constants (src/ingest.py)
CHUNK_WORD_TARGET == 200
CHUNK_OVERLAP_WORDS == 30
MIN_CHUNK_WORDS == 15
BATCH_SIZE == 500

\* ------------------------------------------------------------------------
\* Bounds of the model
\* ------------------------------------------------------------------------
\* answer() calls made in one behaviour of SpecCall
MaxCalls == 1
\* length of the enumerated part of a sanitize_input() argument
MaxTail == 4
\* documents in a corpus
MaxDocs == 3
\* hits in an answer of the store (the largest top_k tried)
MaxHits == 5
\* documents in a corpus that is ingested, edited and ingested again
MaxEditedDocs == 2
\* full batches of BATCH_SIZE records a large corpus stages
MaxFullBatches == 1
\* sentences in a text given to text_to_chunks with chosen parameters
MaxSentences == 4

\* ------------------------------------------------------------------------
\* Text helpers
\* ------------------------------------------------------------------------
NUL == "NUL"
None == <<>>
Some(v) == <<v>>

MinOf(S) == CHOOSE x \in S : \A y \in S : x <= y
MaxOf(S) == CHOOSE x \in S : \A y \in S : x >= y

\* characters matched by \s and removed by str.strip()
IsSpace(c) == c \in {" ", "\t", "\n"}

\* str.strip()
Strip(s) ==
    LET keep == {i \in 1..Len(s) : ~IsSpace(s[i])}
    IN  IF keep = {} THEN <<>> ELSE SubSeq(s, MinOf(keep), MaxOf(keep))

\* s[:n]
Take(s, n) == IF Len(s) <= n THEN s ELSE SubSeq(s, 1, n)

\* s[-n:] for n > 0
LastN(s, n) == IF Len(s) <= n THEN s ELSE SubSeq(s, Len(s) - n + 1, Len(s))

\* re.sub(r'\x00', '', s)
RemoveNul(s) == SelectSeq(s, LAMBDA c : c # NUL)

\* re.sub(r'\s+', ' ', s)
CollapseSpace(s) ==
    LET marked == [i \in 1..Len(s) |->
                     IF IsSpace(s[i])
                     THEN (IF i > 1 /\ IsSpace(s[i-1]) THEN "DROP" ELSE " ")
                     ELSE s[i]]
    IN  SelectSeq(marked, LAMBDA c : c # "DROP")

\* sep.join(parts)
RECURSIVE Join(_, _)
Join(parts, sep) ==
    IF parts = <<>> THEN <<>>
    ELSE IF Len(parts) = 1 THEN parts[1]
    ELSE parts[1] \o sep \o Join(Tail(parts), sep)

\* dict.get(key, default)
Get(d, key, default) == IF key \in DOMAIN d THEN d[key] ELSE default

\* ------------------------------------------------------------------------
\* RAGChatbot.sanitize_input
\* A call argument is [kind, truthy, chars]: kind "str" carries chars, any
\* other kind is a non-string Python value that is truthy or not.
\* ------------------------------------------------------------------------
Str(chars) == [kind |-> "str", truthy |-> chars # <<>>, chars |-> chars]
NonStr(truthy) == [kind |-> "other", truthy |-> truthy, chars |-> <<>>]

\* whitespace collapsed before the NUL characters are removed
sanitize_input_CollapseFirst(query) ==
    IF ~query.truthy \/ query.kind # "str" THEN <<>>
    ELSE RemoveNul(CollapseSpace(Take(Strip(query.chars), MAX_INPUT_LENGTH)))

sanitize_input(query) ==
    IF ~query.truthy \/ query.kind # "str" THEN <<>>
    ELSE CollapseSpace(RemoveNul(Take(Strip(query.chars), MAX_INPUT_LENGTH)))

\* ------------------------------------------------------------------------
\* RAGChatbot.retrieve_documents
\* The store's answer is [documents, distances]: documents is the list of
\* hits, most similar first, each [text, meta, distance]; distances tells
\* whether the answer carries the 'distances' key.  A distance is counted
\* in 1/10000, a relevance in 1/1000.
\* ------------------------------------------------------------------------
\* round(x, 3) of x given in 1/10000 (the model uses no exact ties)
Round3(x) == (x + 5) \div 10

Relevance(results, i) ==
    LET distance == IF results.distances THEN Some(results.documents[i].distance)
                    ELSE None
    IN  IF distance # None /\ distance[1] # 0
        THEN Some(Round3(10000 - distance[1]))
        ELSE None

SourceEntry(results, i, site_name) ==
    LET meta == results.documents[i].meta
    IN  [site        |-> site_name,
         source      |-> Get(meta, "source", "inconnu"),
         ville       |-> Get(meta, "ville", ""),
         periode     |-> Get(meta, "period", ""),
         coordonnees |-> Get(meta, "coordonnees", ""),
         relevance   |-> Relevance(results, i)]

\* the loop without the seen_sites test
RECURSIVE ScanHits_NoDedup(_, _, _, _, _)
ScanHits_NoDedup(results, i, context_parts, sources, seen_sites) ==
    IF i > Len(results.documents)
    THEN [context_parts |-> context_parts, sources |-> sources]
    ELSE LET hit       == results.documents[i]
             site_name == Get(hit.meta, "site", "Sans titre")
         IN  ScanHits_NoDedup(results, i + 1,
                              Append(context_parts, Strip(hit.text)),
                              Append(sources, SourceEntry(results, i, site_name)),
                              seen_sites \cup {site_name})

\* the for loop of lines 110-124, from hit i on
RECURSIVE ScanHits(_, _, _, _, _)
ScanHits(results, i, context_parts, sources, seen_sites) ==
    IF i > Len(results.documents)
    THEN [context_parts |-> context_parts, sources |-> sources]
    ELSE LET hit       == results.documents[i]
             site_name == Get(hit.meta, "site", "Sans titre")
             parts     == Append(context_parts, Strip(hit.text))
         IN  IF site_name \notin seen_sites
             THEN ScanHits(results, i + 1, parts,
                           Append(sources, SourceEntry(results, i, site_name)),
                           seen_sites \cup {site_name})
             ELSE ScanHits(results, i + 1, parts, sources, seen_sites)

retrieve_documents(results) ==
    IF results.documents = <<>>
    THEN [context |-> <<>>, sources |-> <<>>]
    ELSE LET scan == ScanHits(results, 1, <<>>, <<>>, {})
         IN  [context |-> Join(scan.context_parts, <<"\n", "\n">>),
              sources |-> scan.sources]

\* ------------------------------------------------------------------------
\* RAGChatbot.build_messages
\* ------------------------------------------------------------------------
system_prompt == <<"SYSTEM_PROMPT">>

user_prompt(query, context) ==
    <<"CONTEXTE:", "\n">> \o context \o <<"\n", "\n", "QUESTION:", " ">> \o query
        \o <<"\n", "\n", "INSTRUCTION">>

\* the whole history in place of its last MAX_HISTORY_MESSAGES turns
HistoryWindow_Whole(history) ==
    [i \in 1..Len(history) |->
        [role |-> history[i].role, content |-> history[i].content]]

HistoryWindow(history) ==
    [i \in 1..Len(LastN(history, MAX_HISTORY_MESSAGES)) |->
        [role    |-> LastN(history, MAX_HISTORY_MESSAGES)[i].role,
         content |-> LastN(history, MAX_HISTORY_MESSAGES)[i].content]]

build_messages(query, context, history) ==
    <<[role |-> "system", content |-> system_prompt]>>
        \o HistoryWindow(history)
        \o <<[role |-> "user", content |-> user_prompt(query, context)]>>

\* ------------------------------------------------------------------------
\* RAGChatbot.generate_response
\* The outcome of requests.post is [kind, status, body_ok, content, eval,
\* elapsed]: kind "response" carries an HTTP status, "timeout" and
\* "connection" are the two requests exceptions; body_ok tells whether the
\* body of a 200 response parses and holds message.content; eval is the
\* optional eval_count; elapsed the measured milliseconds.
\* ------------------------------------------------------------------------
MSG_TIMEOUT == <<"ERR_TIMEOUT">>
MSG_CONNECTION == <<"ERR_CONNECTION">>
MSG_MODEL_NOT_FOUND == <<"ERR_MODEL_NOT_FOUND">>
MSG_API(status) == <<"ERR_API", status>>
MSG_EXCEPTION == <<"ERR_EXCEPTION">>
MSG_INVALID == <<"ERR_INVALID_QUESTION">>
MSG_NOTHING_FOUND == <<"ERR_NOTHING_FOUND">>

ErrorMessages ==
    {MSG_TIMEOUT, MSG_CONNECTION, MSG_MODEL_NOT_FOUND, MSG_EXCEPTION}
        \cup {MSG_API(st) : st \in {"500", "503"}}

\* the status of the response is not looked at
generate_response_NoStatus(g) ==
    IF g.kind = "timeout"
    THEN [answer |-> MSG_TIMEOUT, tokens |-> 0, response_time |-> 0]
    ELSE IF g.kind = "connection"
    THEN [answer |-> MSG_CONNECTION, tokens |-> 0, response_time |-> 0]
    ELSE IF g.body_ok
    THEN [answer |-> g.content,
          tokens |-> IF g.eval = None THEN 0 ELSE g.eval[1],
          response_time |-> g.elapsed]
    ELSE [answer |-> MSG_EXCEPTION, tokens |-> 0, response_time |-> 0]

generate_response(g) ==
    IF g.kind = "timeout"
    THEN [answer |-> MSG_TIMEOUT, tokens |-> 0, response_time |-> 0]
    ELSE IF g.kind = "connection"
    THEN [answer |-> MSG_CONNECTION, tokens |-> 0, response_time |-> 0]
    ELSE IF g.status = "200"
    THEN IF g.body_ok
         THEN [answer |-> g.content,
               tokens |-> IF g.eval = None THEN 0 ELSE g.eval[1],
               response_time |-> g.elapsed]
         ELSE [answer |-> MSG_EXCEPTION, tokens |-> 0, response_time |-> 0]
    ELSE IF g.status = "404"
    THEN [answer |-> MSG_MODEL_NOT_FOUND, tokens |-> 0, response_time |-> g.elapsed]
    ELSE [answer |-> MSG_API(g.status), tokens |-> 0, response_time |-> g.elapsed]

\* ------------------------------------------------------------------------
\* State
\* ------------------------------------------------------------------------
VARIABLES
    conversation_history,   \* RAGChatbot.conversation_history
    pc,                     \* per caller: position inside answer()
    loc,                    \* per caller: the locals of its answer() call, with
                            \* what the store (store) and the generation
                            \* service (gen) gave it and the calls it made
    ret,                    \* per caller: None, or <<the tuple returned>>
    calls,                  \* answer() calls begun (counted in SpecCall only)
    overlapped,             \* observation: a call began while another was in
                            \* flight (SpecConcurrent only)
    serial                  \* observation: the history the completed
                            \* exchanges give when each is applied whole, in
                            \* the order of their returns (SpecConcurrent only)

chatVars == <<conversation_history, pc, loc, ret, calls, overlapped, serial>>

\* callers of one RAGChatbot instance; the sequential specifications use
\* the first only
Threads == {1, 2}
SeqThreads == {1}

NoLocals ==
    [arg |-> NonStr(FALSE), history0 |-> <<>>, query |-> <<>>,
     context |-> <<>>, sources |-> <<>>, messages |-> <<>>,
     answer |-> <<>>, tokens |-> 0, response_time |-> 0,
     store |-> None, gen |-> None, kept |-> <<>>,
     embed_calls |-> 0, store_queries |-> 0, gen_requests |-> 0]

Response(answer, sources, tokens, response_time) ==
    [answer |-> answer, sources |-> sources,
     tokens_used |-> tokens, response_time_ms |-> response_time]

\* RAGChatbot.__init__ has succeeded: the history is empty
ChatInit ==
    /\ conversation_history = <<>>
    /\ pc = [t \in Threads |-> "idle"]
    /\ loc = [t \in Threads |-> NoLocals]
    /\ ret = [t \in Threads |-> None]
    /\ calls = 0
    /\ overlapped = FALSE
    /\ serial = <<>>

NoCallInFlight == \A t \in Threads : pc[t] \in {"idle", "returned", "raised"}

\* ------------------------------------------------------------------------
\* RAGChatbot.answer, one action per statement group
\* ------------------------------------------------------------------------
\* "if query is None" in place of "if not query"
QueryIsEmpty_NoneOnly(q) == FALSE

\* line 210: "if not query"
QueryIsEmpty(q) == q = <<>>

\* "if context is None" in place of "if not context"
ContextIsEmpty_NoneOnly(context) == FALSE

\* line 215: "if not context"
ContextIsEmpty(context) == context = <<>>

\* lines 209-211: sanitize, and the validation-error return
AnswerBegin(t, query) ==
    /\ pc[t] \in {"idle", "returned", "raised"}
    /\ LET q == sanitize_input(query)
       IN  /\ loc' = [loc EXCEPT ![t] =
                        [NoLocals EXCEPT !.arg = query,
                                         !.history0 = conversation_history,
                                         !.query = q]]
           /\ IF QueryIsEmpty(q)
              THEN /\ pc' = [pc EXCEPT ![t] = "returned"]
                   /\ ret' = [ret EXCEPT ![t] = Some(Response(MSG_INVALID, <<>>, 0, 0))]
              ELSE /\ pc' = [pc EXCEPT ![t] = "retrieve"]
                   /\ ret' = [ret EXCEPT ![t] = None]
    /\ UNCHANGED conversation_history

\* line 213 (retrieve_documents, lines 95-108) and lines 215-216.
\* outcome.kind is "embed_error" (embedder.encode raises), "query_error"
\* (collection.query raises) or "results" (the store answers).
AnswerRetrieve(t, outcome) ==
    /\ pc[t] = "retrieve"
    /\ IF outcome.kind = "embed_error"
       THEN /\ loc' = [loc EXCEPT ![t].embed_calls = @ + 1]
            /\ pc' = [pc EXCEPT ![t] = "raised"]
            /\ UNCHANGED ret
       ELSE IF outcome.kind = "query_error"
       THEN /\ loc' = [loc EXCEPT ![t].embed_calls = @ + 1,
                                  ![t].store_queries = @ + 1]
            /\ pc' = [pc EXCEPT ![t] = "raised"]
            /\ UNCHANGED ret
       ELSE LET r == retrieve_documents(outcome.results)
            IN  /\ loc' = [loc EXCEPT ![t].embed_calls = @ + 1,
                                      ![t].store_queries = @ + 1,
                                      ![t].store = Some(outcome.results),
                                      ![t].context = r.context,
                                      ![t].sources = r.sources]
                /\ IF ContextIsEmpty(r.context)
                   THEN /\ pc' = [pc EXCEPT ![t] = "returned"]
                        /\ ret' = [ret EXCEPT ![t] =
                                     Some(Response(MSG_NOTHING_FOUND, <<>>, 0, 0))]
                   ELSE /\ pc' = [pc EXCEPT ![t] = "build"]
                        /\ UNCHANGED ret
    /\ UNCHANGED <<conversation_history, calls>>

\* line 218
AnswerBuild(t) ==
    /\ pc[t] = "build"
    /\ loc' = [loc EXCEPT ![t].messages =
                 build_messages(loc[t].query, loc[t].context, conversation_history)]
    /\ pc' = [pc EXCEPT ![t] = "generate"]
    /\ UNCHANGED <<conversation_history, ret, calls>>

\* a timed-out request is issued a second time
AnswerGenerate_Retry(t, g) ==
    /\ pc[t] = "generate"
    /\ LET r == generate_response(g)
       IN  loc' = [loc EXCEPT ![t].answer = r.answer,
                              ![t].tokens = r.tokens,
                              ![t].response_time = r.response_time,
                              ![t].gen = Some(g),
                              ![t].gen_requests = @ + 1]
    /\ pc' = [pc EXCEPT ![t] = IF g.kind = "timeout" /\ loc[t].gen_requests = 0
                               THEN "generate" ELSE "append_user"]
    /\ UNCHANGED <<conversation_history, ret, calls>>

\* line 219
AnswerGenerate(t, g) ==
    /\ pc[t] = "generate"
    /\ LET r == generate_response(g)
       IN  loc' = [loc EXCEPT ![t].answer = r.answer,
                              ![t].tokens = r.tokens,
                              ![t].response_time = r.response_time,
                              ![t].gen = Some(g),
                              ![t].gen_requests = @ + 1]
    /\ pc' = [pc EXCEPT ![t] = "append_user"]
    /\ UNCHANGED <<conversation_history, ret, calls>>

\* the query is appended as it was given
AnswerAppendUser_Raw(t) ==
    /\ pc[t] = "append_user"
    /\ conversation_history' =
         Append(conversation_history, [role |-> "user", content |-> loc[t].arg.chars])
    /\ pc' = [pc EXCEPT ![t] = "append_assistant"]
    /\ UNCHANGED <<loc, ret, calls>>

\* line 221
AnswerAppendUser(t) ==
    /\ pc[t] = "append_user"
    /\ conversation_history' =
         Append(conversation_history, [role |-> "user", content |-> loc[t].query])
    /\ pc' = [pc EXCEPT ![t] = "append_assistant"]
    /\ UNCHANGED <<loc, ret, calls>>

\* the answer is inserted before the last entry
AnswerAppendAssistant_First(t) ==
    /\ pc[t] = "append_assistant"
    /\ conversation_history' =
         Append(SubSeq(conversation_history, 1, Len(conversation_history) - 1),
                [role |-> "assistant", content |-> loc[t].answer])
           \o LastN(conversation_history, 1)
    /\ pc' = [pc EXCEPT ![t] = "truncate"]
    /\ UNCHANGED <<loc, ret, calls>>

\* line 222
AnswerAppendAssistant(t) ==
    /\ pc[t] = "append_assistant"
    /\ conversation_history' =
         Append(conversation_history, [role |-> "assistant", content |-> loc[t].answer])
    /\ pc' = [pc EXCEPT ![t] = "truncate"]
    /\ UNCHANGED <<loc, ret, calls>>

\* the slice keeps one entry too many
TruncateHistory_OneMore(history) ==
    IF Len(history) > MAX_HISTORY_MESSAGES * 2
    THEN LastN(history, MAX_HISTORY_MESSAGES * 2 + 1)
    ELSE history

\* lines 224-225: the list the history is cut to
TruncateHistory(history) ==
    IF Len(history) > MAX_HISTORY_MESSAGES * 2
    THEN LastN(history, MAX_HISTORY_MESSAGES * 2)
    ELSE history

\* line 227
Return(t) ==
    /\ pc' = [pc EXCEPT ![t] = "returned"]
    /\ ret' = [ret EXCEPT ![t] =
                 Some(Response(loc[t].answer, loc[t].sources,
                               loc[t].tokens, loc[t].response_time))]

\* line 224 and the right-hand side of line 225: the length is tested and
\* the slice taken from the history as it is now; without a cut the call
\* returns (line 227)
AnswerTruncate(t) ==
    /\ pc[t] = "truncate"
    /\ IF Len(conversation_history) > MAX_HISTORY_MESSAGES * 2
       THEN /\ loc' = [loc EXCEPT ![t].kept = TruncateHistory(conversation_history)]
            /\ pc' = [pc EXCEPT ![t] = "assign"]
            /\ UNCHANGED ret
       ELSE /\ Return(t)
            /\ UNCHANGED loc
    /\ UNCHANGED <<conversation_history, calls>>

\* the slice is taken but the history is left as it is
AnswerAssignReturn_NoAssign(t) ==
    /\ pc[t] = "assign"
    /\ Return(t)
    /\ UNCHANGED <<conversation_history, loc, calls>>

\* the assignment of line 225, then line 227
AnswerAssignReturn(t) ==
    /\ pc[t] = "assign"
    /\ conversation_history' = loc[t].kept
    /\ Return(t)
    /\ UNCHANGED <<loc, calls>>

\* ------------------------------------------------------------------------
\* RAGChatbot.load_history_from_messages / clear_history
\* ------------------------------------------------------------------------
LoadedHistory(messages) ==
    [i \in 1..Len(LastN(messages, MAX_HISTORY_MESSAGES)) |->
        [role    |-> LastN(messages, MAX_HISTORY_MESSAGES)[i].role,
         content |-> LastN(messages, MAX_HISTORY_MESSAGES)[i].content]]

load_history_from_messages(messages) ==
    /\ conversation_history' = LoadedHistory(messages)
    /\ UNCHANGED <<pc, loc, ret, calls>>

clear_history ==
    /\ conversation_history' = <<>>
    /\ UNCHANGED <<pc, loc, ret, calls>>

\* ------------------------------------------------------------------------
\* Ingestion: texts
\* A text is a sequence of words separated by single spaces; a word is
\* [w, end]: w identifies the word, end tells whether it ends with one of
\* the sentence terminators of _sentence_split_re.
\* ------------------------------------------------------------------------
Word(w, end) == [w |-> w, end |-> end]

\* a sentence of n words whose identities are first+1 .. first+n
Sentence(first, n) ==
    [i \in 1..n |-> Word(first + i, i = n)]

RECURSIVE SumSeq(_)
SumSeq(ns) == IF ns = <<>> THEN 0 ELSE ns[1] + SumSeq(Tail(ns))

\* the text whose sentences have the given lengths, words numbered from
\* first+1 on
RECURSIVE Sentences(_, _)
Sentences(first, lengths) ==
    IF lengths = <<>> THEN <<>>
    ELSE Sentence(first, lengths[1]) \o Sentences(first + lengths[1], Tail(lengths))

\* _sentence_split_re.split(text), empty pieces dropped (lines 54, 60-62):
\* the text is cut after every word that ends with a terminator
SentenceEnds(text) ==
    {i \in 1..Len(text) : text[i].end \/ i = Len(text)}

SplitSentences(text) ==
    LET ends == SentenceEnds(text)
        nth(k) == CHOOSE e \in ends : Cardinality({x \in ends : x < e}) = k - 1
    IN  [k \in 1..Cardinality(ends) |->
            SubSeq(text, IF k = 1 THEN 1 ELSE nth(k - 1) + 1, nth(k))]

\* " ".join(current_chunk): current_chunk is a list of pieces of text
RECURSIVE JoinWords(_)
JoinWords(pieces) ==
    IF pieces = <<>> THEN <<>> ELSE pieces[1] \o JoinWords(Tail(pieces))

\* ------------------------------------------------------------------------
\* text_to_chunks (src/ingest.py)
\* ------------------------------------------------------------------------
\* the seed takes the first words of the closed chunk
OverlapWords_FromStart(chunk_text, overlap) == Take(chunk_text, overlap)

\* lines 78-79: all_words[-overlap:], the whole chunk when it is shorter
OverlapWords(chunk_text, overlap) == LastN(chunk_text, overlap)

\* a sentence is added while the chunk itself is within target_words
RECURSIVE ChunkLoop_CountBefore(_, _, _, _, _, _, _)
ChunkLoop_CountBefore(sentences, k, chunks, current_chunk, current_word_count, target_words, overlap) ==
    IF k > Len(sentences)
    THEN IF current_chunk # <<>> /\ JoinWords(current_chunk) # <<>>
         THEN Append(chunks, JoinWords(current_chunk))
         ELSE chunks
    ELSE LET sentence   == sentences[k]
             word_count == Len(sentence)
         IN  IF current_word_count <= target_words
                \/ current_chunk = <<>>
             THEN ChunkLoop_CountBefore(sentences, k + 1, chunks,
                            Append(current_chunk, sentence),
                            current_word_count + word_count,
                            target_words, overlap)
             ELSE LET chunk_text == JoinWords(current_chunk)
                      saved == IF chunk_text # <<>> THEN Append(chunks, chunk_text)
                               ELSE chunks
                      overlap_words == OverlapWords(chunk_text, overlap)
                  IN  IF overlap > 0
                      THEN ChunkLoop_CountBefore(sentences, k + 1, saved,
                                     <<overlap_words, sentence>>,
                                     Len(overlap_words) + word_count,
                                     target_words, overlap)
                      ELSE ChunkLoop_CountBefore(sentences, k + 1, saved,
                                     <<sentence>>, word_count,
                                     target_words, overlap)

\* the for loop of lines 59-87, from sentence k on, then lines 89-93
RECURSIVE ChunkLoop(_, _, _, _, _, _, _)
ChunkLoop(sentences, k, chunks, current_chunk, current_word_count, target_words, overlap) ==
    IF k > Len(sentences)
    THEN IF current_chunk # <<>> /\ JoinWords(current_chunk) # <<>>
         THEN Append(chunks, JoinWords(current_chunk))
         ELSE chunks
    ELSE LET sentence   == sentences[k]
             word_count == Len(sentence)
         IN  IF current_word_count + word_count <= target_words
                \/ current_chunk = <<>>
             THEN ChunkLoop(sentences, k + 1, chunks,
                            Append(current_chunk, sentence),
                            current_word_count + word_count,
                            target_words, overlap)
             ELSE LET chunk_text == JoinWords(current_chunk)
                      saved == IF chunk_text # <<>> THEN Append(chunks, chunk_text)
                               ELSE chunks
                      overlap_words == OverlapWords(chunk_text, overlap)
                  IN  IF overlap > 0
                      THEN ChunkLoop(sentences, k + 1, saved,
                                     <<overlap_words, sentence>>,
                                     Len(overlap_words) + word_count,
                                     target_words, overlap)
                      ELSE ChunkLoop(sentences, k + 1, saved,
                                     <<sentence>>, word_count,
                                     target_words, overlap)

\* no chunk is filtered out
FilterShort_KeepAll(chunks) == chunks

\* lines 95-98
FilterShort(chunks) == SelectSeq(chunks, LAMBDA c : Len(c) >= MIN_CHUNK_WORDS)

\* every chunk starts empty: no words are carried over from the closed chunk
text_to_chunks_NoSeed(text, target_words, overlap) ==
    FilterShort(ChunkLoop(SplitSentences(text), 1, <<>>, <<>>, 0,
                          target_words, 0))

\* lines 48-98
text_to_chunks(text, target_words, overlap) ==
    FilterShort(ChunkLoop(SplitSentences(text), 1, <<>>, <<>>, 0,
                          target_words, overlap))

\* ------------------------------------------------------------------------
\* create_rich_text (src/ingest.py)
\* A document is a dict with optional keys; the model's documents carry
\* some of id, site, ville and description.  site and ville are one-word
\* names, description is given by the lengths of its sentences.  The fixed
\* words of the generated sentences are numbered from 9000 on.
\* ------------------------------------------------------------------------
create_rich_text(doc) ==
    LET site        == Get(doc, "site", "")
        ville       == Get(doc, "ville", "")
        description == Get(doc, "description", <<>>)
        site_part   == IF site # ""
                       THEN <<Word(9001, FALSE), Word(9002, FALSE), Word(9003, TRUE)>>
                       ELSE <<>>
        ville_part  == IF ville # ""
                       THEN <<Word(9011, FALSE), Word(9012, FALSE),
                              Word(9013, FALSE), Word(9014, TRUE)>>
                       ELSE <<>>
        desc_part   == IF description # <<>> THEN Sentences(0, description) ELSE <<>>
    IN  site_part \o ville_part \o desc_part

\* ------------------------------------------------------------------------
\* Ingestion: main() (src/ingest.py)
\* ------------------------------------------------------------------------
VARIABLES
    corpus,             \* docs, as read by read_corpus
    collection,         \* the store's collection: [exists, records]
    ipc,                \* position inside main()
    doc_i,              \* index of the next document of the for loop
    global_chunk_id,    \* global_chunk_id
    to_add,             \* the staged records (to_add_ids, _docs, _metadatas, _embeddings)
    batch_i,            \* i of the batch loop
    doc_counts,         \* observation: per document of the loop so far, the
                        \* number of records it staged
    prev,               \* observation: the ids and doc_counts of the run
                        \* before this one, and which document was edited since
    seen                \* None, or <<what the last collection.query of a
                        \* chatbot met: [exists, ids, at]>>

ingestVars ==
    <<corpus, collection, ipc, doc_i, global_chunk_id, to_add, batch_i,
      doc_counts, prev, seen>>

NoPrev == [ran |-> FALSE, edited |-> 0, ids |-> <<>>, doc_counts |-> <<>>]

IdsOf(records) == [a \in 1..Len(records) |-> records[a].id]

\* embedder.encode: deterministic, known only through what it is computed from
Embed(chunk_text) == <<Len(chunk_text), chunk_text[1].w, chunk_text[Len(chunk_text)].w>>

\* f"{doc_id}::chunk_{i}": the pair stands for the string, which determines
\* str(doc_id) and i; a document id n stands for its decimal string
ChunkUid(doc_id, i) == <<doc_id, i>>

Metadata(doc, doc_id) ==
    [source_id   |-> doc_id,
     site        |-> Get(doc, "site", ""),
     ville       |-> Get(doc, "ville", ""),
     period      |-> Get(doc, "periode", ""),
     statut      |-> Get(doc, "statut", ""),
     source      |-> Get(doc, "source", ""),
     coordonnees |-> Get(doc, "coordonnees", ""),
     keywords    |-> ""]

\* an empty chunk list is staged as it is
DocChunks_NoFallback(full_text) ==
    text_to_chunks(full_text, CHUNK_WORD_TARGET, CHUNK_OVERLAP_WORDS)

\* lines 220-225
DocChunks(full_text) ==
    LET chunks == text_to_chunks(full_text, CHUNK_WORD_TARGET, CHUNK_OVERLAP_WORDS)
    IN  IF chunks = <<>> THEN <<full_text>> ELSE chunks

\* lines 231-249: the records staged for one document
StagedFor(doc, doc_id, chunks) ==
    [i \in 1..Len(chunks) |->
        [id        |-> ChunkUid(doc_id, i - 1),
         document  |-> chunks[i],
         metadata  |-> Metadata(doc, doc_id),
         embedding |-> Embed(chunks[i])]]

\* lines 189-193: a collection of that name, if there is one, is deleted
IngestDelete ==
    /\ ipc = "start"
    /\ collection' = [exists |-> FALSE, records |-> <<>>]
    /\ ipc' = "create"
    /\ UNCHANGED <<corpus, doc_i, global_chunk_id, to_add, batch_i,
                   doc_counts, prev, seen>>

\* lines 195-207: an empty collection is created and the staging lists start
\* empty
IngestCreate ==
    /\ ipc = "create"
    /\ collection' = [exists |-> TRUE, records |-> <<>>]
    /\ to_add' = <<>>
    /\ global_chunk_id' = 0
    /\ doc_i' = 1
    /\ batch_i' = 0
    /\ doc_counts' = <<>>
    /\ ipc' = IF corpus = <<>> THEN "done" ELSE "docs"
    /\ UNCHANGED <<corpus, prev, seen>>

\* where main() goes once the for loop over docs has ended
AfterDocs(staged) == IF Len(staged) = 0 THEN "done" ELSE "insert"

\* lines 211-249: one iteration of the for loop over docs
IngestDoc ==
    /\ ipc = "docs"
    /\ doc_i <= Len(corpus)
    /\ LET doc       == corpus[doc_i]
           doc_id    == Get(doc, "id", global_chunk_id)
           full_text == create_rich_text(doc)
           staged    == IF full_text = <<>> THEN to_add
                        ELSE to_add \o StagedFor(doc, doc_id, DocChunks(full_text))
       IN  /\ to_add' = staged
           /\ global_chunk_id' = Len(staged)
           /\ ipc' = IF doc_i = Len(corpus) THEN AfterDocs(staged) ELSE "docs"
           /\ doc_counts' = Append(doc_counts, Len(staged) - Len(to_add))
    /\ doc_i' = doc_i + 1
    /\ UNCHANGED <<corpus, collection, batch_i, prev, seen>>

\* collection.add of one batch: ids repeated inside the batch are refused
\* (the call raises), records whose id the collection already holds are
\* left out
HasDuplicateIds(batch) ==
    \E a, b \in 1..Len(batch) : a # b /\ batch[a].id = batch[b].id

CollectionAdd(records, batch) ==
    records \o SelectSeq(batch, LAMBDA r : \A k \in 1..Len(records) : records[k].id # r.id)

\* lines 255-262: one iteration of the batch loop
IngestBatch ==
    /\ ipc = "insert"
    /\ batch_i < Len(to_add)
    /\ LET j     == IF batch_i + BATCH_SIZE < Len(to_add)
                    THEN batch_i + BATCH_SIZE ELSE Len(to_add)
           batch == SubSeq(to_add, batch_i + 1, j)
       IN  IF HasDuplicateIds(batch)
           THEN /\ ipc' = "failed"
                /\ UNCHANGED <<collection, batch_i>>
           ELSE /\ collection' = [collection EXCEPT
                                    !.records = CollectionAdd(@, batch)]
                /\ batch_i' = batch_i + BATCH_SIZE
                /\ ipc' = IF batch_i + BATCH_SIZE < Len(to_add) THEN "insert" ELSE "done"
    /\ UNCHANGED <<corpus, doc_i, global_chunk_id, to_add, doc_counts, prev, seen>>

\* main() is run again (lines 162-180 read the corpus anew) after the
\* description of document k of corpus.jsonl was replaced by d
Reingest(k, d) ==
    /\ ipc = "done"
    /\ ~prev.ran
    /\ k \in 1..Len(corpus)
    /\ corpus[k].description # d
    /\ corpus' = [corpus EXCEPT ![k].description = d]
    /\ prev' = [ran |-> TRUE, edited |-> k, ids |-> IdsOf(to_add),
                doc_counts |-> doc_counts]
    /\ ipc' = "start"
    /\ UNCHANGED <<collection, doc_i, global_chunk_id, to_add, batch_i,
                   doc_counts, seen>>

\* src/rag.py lines 100-104: a chatbot's collection.query meets the
\* collection as it is at that moment
Query ==
    /\ seen' = Some([exists |-> collection.exists,
                     ids    |-> IdsOf(collection.records),
                     at     |-> ipc])
    /\ UNCHANGED <<corpus, collection, ipc, doc_i, global_chunk_id, to_add,
                   batch_i, doc_counts, prev>>

\* ------------------------------------------------------------------------
\* sanitize_input, retrieve_documents and text_to_chunks applied to one
\* argument
\* ------------------------------------------------------------------------
VARIABLES
    san,                \* [arg, out]: the argument, and None or <<the result>>
    rd,                 \* [results, out]: the store's answer, and None or
                        \* <<the (context, sources) returned>>
    ck                  \* [text, target_words, overlap, out]: the arguments,
                        \* and None or <<the chunks returned>>

sanVars == <<san, rd, ck>>

\* ------------------------------------------------------------------------
\* The chat page (src/app.py) and the messages table (src/database.py) of
\* the current chat
\* ------------------------------------------------------------------------
VARIABLES
    db_messages,        \* the rows of the messages table, in insertion order
    ui,                 \* [at, asked]: position of the chat-input handler,
                        \* "idle", or "answering" from the user row to the
                        \* assistant row; and the questions typed so far
    held                \* None, or <<the conversation_history the session
                        \* held when load_chat replaced it>>

uiVars == <<db_messages, ui, held>>

vars == <<conversation_history, pc, loc, ret, calls, overlapped, serial,
          corpus, collection, ipc, doc_i, global_chunk_id, to_add, batch_i,
          doc_counts, prev, seen,
          san, rd, ck,
          db_messages, ui, held>>

SanitizeCall ==
    /\ san.out = None
    /\ san' = [san EXCEPT !.out = Some(sanitize_input(san.arg))]
    /\ UNCHANGED <<chatVars, ingestVars, uiVars, rd, ck>>

RetrieveCall ==
    /\ rd.out = None
    /\ rd' = [rd EXCEPT !.out = Some(retrieve_documents(rd.results))]
    /\ UNCHANGED <<chatVars, ingestVars, uiVars, san, ck>>

ChunkCall ==
    /\ ck.out = None
    /\ ck' = [ck EXCEPT !.out =
                 Some(text_to_chunks(ck.text, ck.target_words, ck.overlap))]
    /\ UNCHANGED <<chatVars, ingestVars, uiVars, san, rd>>

\* ------------------------------------------------------------------------
\* Inputs
\* ------------------------------------------------------------------------
Alphabet == {"a", " ", "\t", NUL}
Strings(n) == UNION {[1..k -> Alphabet] : k \in 0..n}
Pad(n) == [i \in 1..n |-> "a"]

\* arguments of sanitize_input: short ones, and ones around MAX_INPUT_LENGTH
SanitizePrefixes ==
    {<<>>,
     <<"b">>,
     Pad(MAX_INPUT_LENGTH - 2),
     <<" ", "b", " ", NUL, "\t">> \o Pad(MAX_INPUT_LENGTH - 6)}

SanitizeArgs ==
    {Str(prefix \o tail) : prefix \in SanitizePrefixes, tail \in Strings(MaxTail)}
      \cup {NonStr(FALSE), NonStr(TRUE)}

Q_OK == Str(<<" ", "a", " ", "\t", "b", " ">>)
Q_LONG == Str(Pad(MAX_INPUT_LENGTH) \o <<"b">>)
Q_EMPTY == Str(<<>>)
Q_SPACES == Str(<<" ", "\t">>)
Q_NUL == Str(<<NUL>>)
Q_NUL_SPACE == Str(<<NUL, " ", NUL>>)
Q_NONE == NonStr(FALSE)
Q_INT == NonStr(TRUE)

Queries == {Q_OK, Q_LONG, Q_EMPTY, Q_SPACES, Q_NUL, Q_NUL_SPACE, Q_NONE, Q_INT}
SessionQueries == {Q_OK, Q_EMPTY}

Hit(text, site, distance) ==
    [text |-> text, meta |-> [site |-> site, ville |-> "V", source |-> "S"],
     distance |-> distance]
HitNoSite(text, distance) ==
    [text |-> text, meta |-> [ville |-> "V"], distance |-> distance]

Results(documents) == [documents |-> documents, distances |-> TRUE]

R_EMPTY == Results(<<>>)
R_ONE == Results(<<Hit(<<" ", "c", "1">>, "Carthage", 2504)>>)
R_SAME_SITE == Results(<<Hit(<<"c", "1">>, "Carthage", 0),
                         Hit(<<"c", "2", "\n">>, "Carthage", 3117)>>)
R_MIXED == Results(<<Hit(<<"d", "1">>, "Dougga", 1200),
                     Hit(<<"c", "1">>, "Carthage", 2504),
                     Hit(<<"d", "2">>, "Dougga", 4000),
                     HitNoSite(<<"x">>, 5000)>>)
R_BLANK == Results(<<Hit(<<" ">>, "Carthage", 2504)>>)

RetrievalOutcomes ==
    {[kind |-> "embed_error", results |-> R_EMPTY],
     [kind |-> "query_error", results |-> R_EMPTY]}
      \cup {[kind |-> "results", results |-> r] :
              r \in {R_EMPTY, R_ONE, R_SAME_SITE, R_MIXED, R_BLANK}}
SessionRetrievalOutcomes ==
    {[kind |-> "query_error", results |-> R_EMPTY],
     [kind |-> "results", results |-> R_EMPTY],
     [kind |-> "results", results |-> R_ONE]}

HttpResponse(status, body_ok, content, eval, elapsed) ==
    [kind |-> "response", status |-> status, body_ok |-> body_ok,
     content |-> content, eval |-> eval, elapsed |-> elapsed]
RequestFailure(kind) ==
    [kind |-> kind, status |-> "", body_ok |-> FALSE,
     content |-> <<>>, eval |-> None, elapsed |-> 0]

G_OK == HttpResponse("200", TRUE, <<"A", "1">>, Some(42), 850)
G_OK_NO_COUNT == HttpResponse("200", TRUE, <<"A", "2">>, None, 900)
G_BAD_BODY == HttpResponse("200", FALSE, <<>>, None, 300)
G_404 == HttpResponse("404", FALSE, <<>>, None, 12)
G_500 == HttpResponse("500", FALSE, <<>>, None, 15)
G_503 == HttpResponse("503", FALSE, <<>>, None, 0)
G_TIMEOUT == RequestFailure("timeout")
G_CONNECTION == RequestFailure("connection")

GenerationOutcomes ==
    {G_OK, G_OK_NO_COUNT, G_BAD_BODY, G_404, G_500, G_503, G_TIMEOUT, G_CONNECTION}
GenerationFailures == {G_404, G_500, G_503, G_TIMEOUT, G_CONNECTION}
SessionGenerationOutcomes == {G_OK, G_CONNECTION}

\* rows of the messages table of one chat, as db.get_chat_messages gives them
DbMessage(id, role, content) == [id |-> id, role |-> role, content |-> content]
DbChat(n) ==
    [i \in 1..n |-> DbMessage(i, IF i % 2 = 1 THEN "user" ELSE "assistant",
                              IF i % 2 = 1 THEN <<"q", "old">> ELSE <<"r", "old">>)]
DbChats == {DbChat(0), DbChat(3), DbChat(7)}

\* histories a session can hold when a call of SpecCall begins
Turn(role, content) == [role |-> role, content |-> content]
Exchanges(n) ==
    [i \in 1..(2 * n) |-> IF i % 2 = 1 THEN Turn("user", <<"a", " ", "b">>)
                          ELSE Turn("assistant", <<"A", "1">>)]
StartHistories == {Exchanges(0), Exchanges(1), Exchanges(MAX_HISTORY_MESSAGES)}

\* ------------------------------------------------------------------------
\* Spec: one chat session, calls made one after the other
\* ------------------------------------------------------------------------
IngestIdle ==
    /\ corpus = <<>>
    /\ collection = [exists |-> TRUE, records |-> <<>>]
    /\ ipc = "off"
    /\ doc_i = 1
    /\ global_chunk_id = 0
    /\ to_add = <<>>
    /\ batch_i = 0
    /\ doc_counts = <<>>
    /\ prev = NoPrev
    /\ seen = None

SanitizeIdle == san = [arg |-> NonStr(FALSE), out |-> None]
RetrieveIdle == rd = [results |-> R_EMPTY, out |-> None]
ChunkIdle ==
    ck = [text |-> <<>>, target_words |-> CHUNK_WORD_TARGET,
          overlap |-> CHUNK_OVERLAP_WORDS, out |-> None]

\* create_new_chat (src/app.py:92-98) has made an empty chat the current one
UiIdle ==
    /\ db_messages = <<>>
    /\ ui = [at |-> "idle", asked |-> 0]
    /\ held = None

Init == ChatInit /\ IngestIdle /\ SanitizeIdle /\ RetrieveIdle /\ ChunkIdle /\ UiIdle

OnlyChat == UNCHANGED <<ingestVars, sanVars, uiVars, overlapped, serial>>

SessionBegin ==
    /\ \E t \in SeqThreads, query \in SessionQueries :
          NoCallInFlight /\ AnswerBegin(t, query) /\ UNCHANGED calls
    /\ OnlyChat
SessionRetrieve ==
    /\ \E t \in SeqThreads, outcome \in SessionRetrievalOutcomes :
          AnswerRetrieve(t, outcome)
    /\ OnlyChat
SessionGenerate ==
    /\ \E t \in SeqThreads, g \in SessionGenerationOutcomes : AnswerGenerate(t, g)
    /\ OnlyChat
Build == (\E t \in SeqThreads : AnswerBuild(t)) /\ OnlyChat
AppendUser == (\E t \in SeqThreads : AnswerAppendUser(t)) /\ OnlyChat
AppendAssistant == (\E t \in SeqThreads : AnswerAppendAssistant(t)) /\ OnlyChat
Truncate == (\E t \in SeqThreads : AnswerTruncate(t)) /\ OnlyChat
AssignReturn == (\E t \in SeqThreads : AnswerAssignReturn(t)) /\ OnlyChat
LoadHistory ==
    /\ \E messages \in DbChats : NoCallInFlight /\ load_history_from_messages(messages)
    /\ OnlyChat
ClearHistory == NoCallInFlight /\ clear_history /\ OnlyChat

Next ==
    \/ SessionBegin
    \/ SessionRetrieve
    \/ Build
    \/ SessionGenerate
    \/ AppendUser
    \/ AppendAssistant
    \/ Truncate
    \/ AssignReturn
    \/ LoadHistory
    \/ ClearHistory

Spec == Init /\ [][Next]_vars

\* ------------------------------------------------------------------------
\* SpecFresh: the session of Spec without load_history_from_messages: the
\* history is only ever the empty one, a cleared one, or what answer() has
\* made of it
\* ------------------------------------------------------------------------
NextFresh ==
    \/ SessionBegin
    \/ SessionRetrieve
    \/ Build
    \/ SessionGenerate
    \/ AppendUser
    \/ AppendAssistant
    \/ Truncate
    \/ AssignReturn
    \/ ClearHistory

SpecFresh == Init /\ [][NextFresh]_vars

\* ------------------------------------------------------------------------
\* SpecCall: MaxCalls calls with every kind of argument, store answer and
\* generation outcome, begun from a history a session can hold
\* ------------------------------------------------------------------------
InitCall ==
    /\ UiIdle
    /\ conversation_history \in StartHistories
    /\ pc = [t \in Threads |-> "idle"]
    /\ loc = [t \in Threads |-> NoLocals]
    /\ ret = [t \in Threads |-> None]
    /\ calls = 0
    /\ overlapped = FALSE
    /\ serial = <<>>
    /\ IngestIdle
    /\ SanitizeIdle
    /\ RetrieveIdle
    /\ ChunkIdle

CallBegin ==
    /\ \E t \in SeqThreads, query \in Queries :
          /\ NoCallInFlight
          /\ calls < MaxCalls
          /\ calls' = calls + 1
          /\ AnswerBegin(t, query)
    /\ OnlyChat
CallRetrieve ==
    /\ \E t \in SeqThreads, outcome \in RetrievalOutcomes : AnswerRetrieve(t, outcome)
    /\ OnlyChat
CallGenerate ==
    /\ \E t \in SeqThreads, g \in GenerationOutcomes : AnswerGenerate(t, g)
    /\ OnlyChat

NextCall ==
    \/ CallBegin
    \/ CallRetrieve
    \/ Build
    \/ CallGenerate
    \/ AppendUser
    \/ AppendAssistant
    \/ Truncate
    \/ AssignReturn

SpecCall == InitCall /\ [][NextCall]_vars

\* ------------------------------------------------------------------------
\* SpecSanitize: sanitize_input on every argument of SanitizeArgs
\* ------------------------------------------------------------------------
InitSanitize ==
    /\ UiIdle
    /\ ChatInit
    /\ IngestIdle
    /\ RetrieveIdle
    /\ ChunkIdle
    /\ san \in {[arg |-> a, out |-> None] : a \in SanitizeArgs}

NextSanitize == SanitizeCall

SpecSanitize == InitSanitize /\ [][NextSanitize]_vars

\* ------------------------------------------------------------------------
\* SpecRetrieve: retrieve_documents on every answer of StoreAnswers
\* ------------------------------------------------------------------------
Sites == {"Carthage", "Dougga", "El Jem"}
Villes == <<"Tunis", "Teboursouk", "Mahdia", "Sousse", "Kairouan", "Sfax", "Bizerte">>

\* the hit at rank i: its text, ville, source and distance depend on the rank
\* only, its site (or the absence of one) is chosen
RankedHit(i, site) ==
    [text |-> <<"t", Villes[i]>>,
     meta |-> IF site = "" THEN [ville |-> Villes[i], source |-> Villes[i]]
              ELSE [site |-> site, ville |-> Villes[i], source |-> Villes[i]],
     distance |-> 1000 * i + 4]

\* the first hit is an exact match (distance 0) when exact holds, and the
\* last hit lies further than 1 when far holds
WithDistances(documents, exact, far) ==
    [i \in 1..Len(documents) |->
        [documents[i] EXCEPT !.distance =
            IF exact /\ i = 1 THEN 0
            ELSE IF far /\ i = Len(documents) THEN 10000 + @
            ELSE @]]

StoreAnswers ==
    {[documents |-> WithDistances([i \in 1..Len(sites) |-> RankedHit(i, sites[i])],
                                  exact, far),
      distances |-> d] :
        sites \in UNION {[1..k -> Sites \cup {""}] : k \in 0..MaxHits},
        d \in BOOLEAN, exact \in BOOLEAN, far \in BOOLEAN}

InitRetrieve ==
    /\ UiIdle
    /\ ChatInit
    /\ IngestIdle
    /\ SanitizeIdle
    /\ ChunkIdle
    /\ rd \in {[results |-> r, out |-> None] : r \in StoreAnswers}

NextRetrieve == RetrieveCall

SpecRetrieve == InitRetrieve /\ [][NextRetrieve]_vars

\* ------------------------------------------------------------------------
\* SpecIngest: one run of main() over every corpus of Corpora
\* ------------------------------------------------------------------------
DocIds == {0, 1}
Descriptions == {<<>>, <<5>>, <<5, 250>>, <<150, 150, 150>>}

Docs ==
    {[description |-> <<>>]}
      \cup {[site |-> "Carthage", description |-> d] : d \in Descriptions \ {<<>>}}
      \cup {[id |-> n, site |-> "Carthage", description |-> d] :
              n \in DocIds, d \in Descriptions \ {<<>>}}

\* corpora whose explicit ids are pairwise distinct
Corpora ==
    {c \in UNION {[1..n -> Docs] : n \in 0..MaxDocs} :
        \A a, b \in 1..Len(c) :
            (a # b /\ "id" \in DOMAIN c[a] /\ "id" \in DOMAIN c[b]) => c[a].id # c[b].id}

OldRecord ==
    [id |-> ChunkUid(0, 0), document |-> Sentence(7000, 20),
     metadata |-> Metadata([site |-> "Kerkouane"], 0),
     embedding |-> Embed(Sentence(7000, 20))]

InitIngest ==
    /\ UiIdle
    /\ ChatInit
    /\ SanitizeIdle
    /\ RetrieveIdle
    /\ ChunkIdle
    /\ corpus \in Corpora
    /\ collection \in {[exists |-> FALSE, records |-> <<>>],
                       [exists |-> TRUE, records |-> <<OldRecord>>]}
    /\ ipc = "start"
    /\ doc_i = 1
    /\ global_chunk_id = 0
    /\ to_add = <<>>
    /\ batch_i = 0
    /\ doc_counts = <<>>
    /\ prev = NoPrev
    /\ seen = None

OnlyIngest == UNCHANGED <<chatVars, sanVars, uiVars>>

RunDelete == IngestDelete /\ OnlyIngest
RunCreate == IngestCreate /\ OnlyIngest
RunDoc == IngestDoc /\ OnlyIngest
RunBatch == IngestBatch /\ OnlyIngest

NextIngest ==
    \/ RunDelete
    \/ RunCreate
    \/ RunDoc
    \/ RunBatch

SpecIngest == InitIngest /\ [][NextIngest]_vars

\* ------------------------------------------------------------------------
\* SpecReingest: a run of main(), an edit of one document's description,
\* and a second run over the edited corpus
\* ------------------------------------------------------------------------
InitReingest ==
    /\ UiIdle
    /\ InitIngest
    /\ Len(corpus) <= MaxEditedDocs

RunAgain ==
    /\ \E k \in 1..MaxEditedDocs, d \in Descriptions : Reingest(k, d)
    /\ OnlyIngest

NextReingest ==
    \/ RunDelete
    \/ RunCreate
    \/ RunDoc
    \/ RunBatch
    \/ RunAgain

SpecReingest == InitReingest /\ [][NextReingest]_vars

\* ------------------------------------------------------------------------
\* SpecBatch: one run of main() over corpora that stage 0, 1, and one less
\* than, exactly and one more than a multiple of BATCH_SIZE records, while a
\* chatbot queries the collection
\* ------------------------------------------------------------------------
\* a document whose enriched text is one word: it stages its fallback chunk
SmallDoc == [description |-> <<1>>]

Uniform(n) == [i \in 1..n |-> SmallDoc]

\* the last document carries the id the first, which has none, is given
FirstIdAgain(n) ==
    [i \in 1..n |-> IF i = n THEN [id |-> 0, description |-> <<1>>] ELSE SmallDoc]

BatchCounts ==
    {0, 1} \cup {k * BATCH_SIZE + d : k \in 1..MaxFullBatches, d \in {-1, 0, 1}}

BatchCorpora ==
    {Uniform(n) : n \in BatchCounts}
      \cup {FirstIdAgain(2), FirstIdAgain(BATCH_SIZE + 1)}

InitBatch ==
    /\ UiIdle
    /\ ChatInit
    /\ SanitizeIdle
    /\ RetrieveIdle
    /\ ChunkIdle
    /\ corpus \in BatchCorpora
    /\ collection = [exists |-> TRUE, records |-> <<OldRecord>>]
    /\ ipc = "start"
    /\ doc_i = 1
    /\ global_chunk_id = 0
    /\ to_add = <<>>
    /\ batch_i = 0
    /\ doc_counts = <<>>
    /\ prev = NoPrev
    /\ seen = None

RunQuery == Query /\ OnlyIngest

NextBatch ==
    \/ RunDelete
    \/ RunCreate
    \/ RunDoc
    \/ RunBatch
    \/ RunQuery

SpecBatch == InitBatch /\ [][NextBatch]_vars

\* ------------------------------------------------------------------------
\* SpecChunk: text_to_chunks applied once to a text, a target and an overlap
\* ------------------------------------------------------------------------
SentenceLengths == {3, 8, 16, 25}
Targets == {10, 20, 40}
Overlaps == {0, 3, MIN_CHUNK_WORDS - 1, MIN_CHUNK_WORDS, CHUNK_OVERLAP_WORDS}

ChunkTexts ==
    {Sentences(0, ls) : ls \in UNION {[1..n -> SentenceLengths] : n \in 0..MaxSentences}}

InitChunk ==
    /\ UiIdle
    /\ ChatInit
    /\ IngestIdle
    /\ SanitizeIdle
    /\ RetrieveIdle
    /\ ck \in [text : ChunkTexts, target_words : Targets, overlap : Overlaps,
                out : {None}]

NextChunk == ChunkCall

SpecChunk == InitChunk /\ [][NextChunk]_vars

\* ------------------------------------------------------------------------
\* SpecConcurrent: two callers of one RAGChatbot instance, one answer()
\* call each, with nothing that keeps the calls apart
\* ------------------------------------------------------------------------
Q_PADDED == Str(<<" ", "c">>)

\* caller 1 asks " a \tb ", caller 2 asks " c"
QueryOf(t) == IF t = 1 THEN Q_OK ELSE Q_PADDED

ConcurrentRetrievalOutcomes ==
    {[kind |-> "results", results |-> R_EMPTY],
     [kind |-> "results", results |-> R_ONE]}

\* the two turns of call t
PairOf(t) ==
    <<[role |-> "user", content |-> loc[t].query],
      [role |-> "assistant", content |-> loc[t].answer]>>

\* serial after the step: the exchange of a call that returns with it is
\* applied whole
SerialAfter(t) ==
    serial' = IF pc'[t] = "returned"
              THEN TruncateHistory(serial \o PairOf(t))
              ELSE serial

InitConcurrent ==
    /\ UiIdle
    /\ conversation_history \in StartHistories
    /\ pc = [t \in Threads |-> "idle"]
    /\ loc = [t \in Threads |-> NoLocals]
    /\ ret = [t \in Threads |-> None]
    /\ calls = 0
    /\ overlapped = FALSE
    /\ serial = conversation_history
    /\ IngestIdle
    /\ SanitizeIdle
    /\ RetrieveIdle
    /\ ChunkIdle

OnlyCalls == UNCHANGED <<ingestVars, sanVars, uiVars>>

ConcurrentBegin ==
    /\ \E t \in Threads :
          /\ pc[t] = "idle"
          /\ AnswerBegin(t, QueryOf(t))
          /\ overlapped' = (overlapped \/ ~NoCallInFlight)
    /\ UNCHANGED <<calls, serial>>
    /\ OnlyCalls
ConcurrentRetrieve ==
    /\ \E t \in Threads, outcome \in ConcurrentRetrievalOutcomes :
          AnswerRetrieve(t, outcome)
    /\ UNCHANGED <<overlapped, serial>>
    /\ OnlyCalls
ConcurrentBuild ==
    /\ \E t \in Threads : AnswerBuild(t)
    /\ UNCHANGED <<overlapped, serial>>
    /\ OnlyCalls
ConcurrentGenerate ==
    /\ \E t \in Threads, g \in SessionGenerationOutcomes : AnswerGenerate(t, g)
    /\ UNCHANGED <<overlapped, serial>>
    /\ OnlyCalls
ConcurrentAppendUser ==
    /\ \E t \in Threads : AnswerAppendUser(t)
    /\ UNCHANGED <<overlapped, serial>>
    /\ OnlyCalls
ConcurrentAppendAssistant ==
    /\ \E t \in Threads : AnswerAppendAssistant(t)
    /\ UNCHANGED <<overlapped, serial>>
    /\ OnlyCalls
ConcurrentTruncate ==
    /\ \E t \in Threads : AnswerTruncate(t) /\ SerialAfter(t)
    /\ UNCHANGED overlapped
    /\ OnlyCalls
ConcurrentAssignReturn ==
    /\ \E t \in Threads : AnswerAssignReturn(t) /\ SerialAfter(t)
    /\ UNCHANGED overlapped
    /\ OnlyCalls

NextConcurrent ==
    \/ ConcurrentBegin
    \/ ConcurrentRetrieve
    \/ ConcurrentBuild
    \/ ConcurrentGenerate
    \/ ConcurrentAppendUser
    \/ ConcurrentAppendAssistant
    \/ ConcurrentTruncate
    \/ ConcurrentAssignReturn

SpecConcurrent == InitConcurrent /\ [][NextConcurrent]_vars

\* ------------------------------------------------------------------------
\* SpecUi: one chat of the page, a new one or a stored one that load_chat
\* has opened: questions typed into the chat input, each persisted with
\* add_message around the answer() call, and load_chat reloading the chat
\* from the table.  The page reruns its script for one event at a time, so
\* the calls are those of thread 1.
\* ------------------------------------------------------------------------
MaxQuestions == 4

Q_PLAIN == Str(<<"a", " ", "b">>)
UiQueries == {Q_PLAIN, Q_OK, Q_SPACES}

\* database.py 162-184: one more row; the id is the autoincrement key
add_message(rows, role, content) ==
    Append(rows, DbMessage(Len(rows) + 1, role, content))

\* database.py 186-207 and 278-279: the rows of the chat, oldest first
get_chat_messages(rows) == rows

UiChats == {DbChat(0), DbChat(MAX_HISTORY_MESSAGES)}

InitUi ==
    /\ db_messages \in UiChats
    /\ ui = [at |-> "idle", asked |-> 0]
    /\ held = None
    /\ conversation_history = LoadedHistory(get_chat_messages(db_messages))
    /\ pc = [t \in Threads |-> "idle"]
    /\ loc = [t \in Threads |-> NoLocals]
    /\ ret = [t \in Threads |-> None]
    /\ calls = 0
    /\ overlapped = FALSE
    /\ serial = <<>>
    /\ IngestIdle
    /\ SanitizeIdle
    /\ RetrieveIdle
    /\ ChunkIdle

\* app.py 367-384: st.chat_input gives a non-empty string; the user row is
\* written with the text as typed, then answer() is called
UiAsk ==
    /\ ui.at = "idle"
    /\ NoCallInFlight
    /\ ui.asked < MaxQuestions
    /\ \E query \in UiQueries :
          /\ query.chars # <<>>
          /\ db_messages' = add_message(db_messages, "user", query.chars)
          /\ AnswerBegin(1, query)
    /\ ui' = [at |-> "answering", asked |-> ui.asked + 1]
    /\ held' = None
    /\ UNCHANGED <<calls, overlapped, serial, ingestVars, sanVars>>

\* app.py 384: an exception of answer() ends the script run: no assistant row
UiRaise ==
    /\ ui.at = "answering"
    /\ pc[1] = "raised"
    /\ ui' = [ui EXCEPT !.at = "idle"]
    /\ UNCHANGED <<chatVars, ingestVars, sanVars, db_messages, held>>

\* app.py 408-419: the assistant row holds the answer, whatever it is
UiPersistAssistant ==
    /\ ui.at = "answering"
    /\ pc[1] = "returned"
    /\ db_messages' = add_message(db_messages, "assistant", ret[1][1].answer)
    /\ ui' = [ui EXCEPT !.at = "idle"]
    /\ UNCHANGED <<chatVars, ingestVars, sanVars, held>>

\* app.py 100-104
load_chat ==
    /\ ui.at = "idle"
    /\ NoCallInFlight
    /\ held' = Some(conversation_history)
    /\ load_history_from_messages(get_chat_messages(db_messages))
    /\ UNCHANGED <<overlapped, serial, ingestVars, sanVars, db_messages, ui>>

NextUi ==
    \/ UiAsk
    \/ SessionRetrieve
    \/ Build
    \/ SessionGenerate
    \/ AppendUser
    \/ AppendAssistant
    \/ Truncate
    \/ AssignReturn
    \/ UiRaise
    \/ UiPersistAssistant
    \/ load_chat

SpecUi == InitUi /\ [][NextUi]_vars

TypeOK ==
    /\ \A t \in Threads :
         pc[t] \in {"idle", "retrieve", "build", "generate", "append_user",
                    "append_assistant", "truncate", "assign", "returned", "raised"}
    /\ ipc \in {"off", "start", "create", "docs", "insert", "done", "failed"}

\* ========================================================================
\* Properties
\* ========================================================================
Running(t) == pc[t] # "idle"
Returned(t) == pc[t] = "returned"

\* sub occurs in s as a run of consecutive elements
Contains(s, sub) ==
    \E i \in 0..(Len(s) - Len(sub)) :
        \A k \in 1..Len(sub) : s[i + k] = sub[k]

\* ------------------------------------------------------------------------
\* C1 (Spec): whenever no answer() call is in flight, that is after any
\* sequence of completed answer(), load_history_from_messages() and
\* clear_history() calls, conversation_history has at most
\* MAX_HISTORY_MESSAGES * 2 = 12 entries.
\* ------------------------------------------------------------------------
C1_HistoryAtMostTwelve ==
    NoCallInFlight => Len(conversation_history) <= MAX_HISTORY_MESSAGES * 2

\* an answer() call that began with a full history has appended its pair
\* and returned
C1_Witness ==
    /\ Returned(1)
    /\ Len(loc[1].history0) = MAX_HISTORY_MESSAGES * 2
    /\ loc[1].gen # None
    /\ Len(conversation_history) = MAX_HISTORY_MESSAGES * 2

\* ------------------------------------------------------------------------
\* C2 (SpecCall): a call whose argument is not a string or is empty has an
\* empty sanitized query, and every call whose sanitized query is empty
\* has returned the validation-error message with no sources, 0 tokens and
\* 0 ms, has made no embedding, store or generation call, and has left
\* conversation_history as it found it.
\* ------------------------------------------------------------------------
C2_EmptyQueryRejected ==
    \A t \in Threads :
        /\ (Running(t) /\ (loc[t].arg.kind # "str" \/ loc[t].arg.chars = <<>>))
              => loc[t].query = <<>>
        /\ (Running(t) /\ loc[t].query = <<>>)
              => /\ Returned(t)
                 /\ ret[t] = Some(Response(MSG_INVALID, <<>>, 0, 0))
                 /\ loc[t].embed_calls = 0
                 /\ loc[t].store_queries = 0
                 /\ loc[t].gen_requests = 0
                 /\ conversation_history = loc[t].history0

\* a string of NUL characters only was rejected while the history held turns
C2_Witness ==
    /\ Returned(1)
    /\ loc[1].arg = Q_NUL
    /\ loc[1].query = <<>>
    /\ ret[1] = Some(Response(MSG_INVALID, <<>>, 0, 0))
    /\ conversation_history # <<>>

\* ------------------------------------------------------------------------
\* C3 (SpecCall): when the store answers a non-empty sanitized query with
\* zero hits, retrieve_documents gives ("", []) and answer() has returned
\* the nothing-found message with no sources, 0 tokens and 0 ms, without a
\* generation request and with conversation_history as it found it.
\* ------------------------------------------------------------------------
C3_ZeroHitsNothingFound ==
    \A t \in Threads :
        (loc[t].store # None /\ loc[t].store[1].documents = <<>>)
            => /\ loc[t].query # <<>>
               /\ loc[t].context = <<>>
               /\ loc[t].sources = <<>>
               /\ Returned(t)
               /\ ret[t] = Some(Response(MSG_NOTHING_FOUND, <<>>, 0, 0))
               /\ loc[t].gen_requests = 0
               /\ loc[t].messages = <<>>
               /\ conversation_history = loc[t].history0

\* the store gave no hit for "a b" while the history held turns
C3_Witness ==
    /\ Returned(1)
    /\ loc[1].query = <<"a", " ", "b">>
    /\ loc[1].store = Some(R_EMPTY)
    /\ ret[1] = Some(Response(MSG_NOTHING_FOUND, <<>>, 0, 0))
    /\ conversation_history # <<>>

\* ------------------------------------------------------------------------
\* C4 (SpecCall): after a generation call that ended in HTTP 404, another
\* non-200 status, a connection failure or a timeout, generate_response has
\* returned the error message of that outcome with 0 tokens (and 0 ms for a
\* connection failure or timeout), and answer() then returns that message
\* with the sources retrieval produced.
\* ------------------------------------------------------------------------
FailureMessage(g) ==
    IF g.kind = "timeout" THEN MSG_TIMEOUT
    ELSE IF g.kind = "connection" THEN MSG_CONNECTION
    ELSE IF g.status = "404" THEN MSG_MODEL_NOT_FOUND
    ELSE MSG_API(g.status)

C4_GenerationFailureIsAnAnswer ==
    \A t \in Threads :
        (loc[t].gen # None /\ loc[t].gen[1] \in GenerationFailures)
            => /\ loc[t].answer = FailureMessage(loc[t].gen[1])
               /\ loc[t].tokens = 0
               /\ loc[t].gen[1].kind \in {"timeout", "connection"}
                     => loc[t].response_time = 0
               /\ pc[t] \in {"append_user", "append_assistant", "truncate", "assign",
                            "returned"}
               /\ Returned(t)
                     => /\ ret[t] # None
                        /\ ret[t][1].answer = FailureMessage(loc[t].gen[1])
                        /\ ret[t][1].tokens_used = 0
                        /\ ret[t][1].sources = retrieve_documents(loc[t].store[1]).sources

\* the service was unreachable and the call returned two retrieved sources
C4_Witness ==
    /\ Returned(1)
    /\ loc[1].gen = Some(G_CONNECTION)
    /\ loc[1].store = Some(R_MIXED)
    /\ ret[1][1].answer = MSG_CONNECTION
    /\ Len(ret[1][1].sources) = 3

\* ------------------------------------------------------------------------
\* C5 (SpecCall): once the chatbot is constructed, no exception escapes
\* answer(): no call ends by raising, whatever the embedding call, the
\* store query and the generation call do.
\* ------------------------------------------------------------------------
C5_NoExceptionEscapes ==
    \A t \in Threads : pc[t] # "raised"

\* ------------------------------------------------------------------------
\* C6 (SpecCall): within one answer() call the query is embedded at most
\* once, the store queried at most once and the generation service
\* requested at most once, and a generation request is issued only after
\* the store was queried and retrieval gave a non-empty context.
\* ------------------------------------------------------------------------
C6_NoRetry ==
    \A t \in Threads :
        /\ loc[t].embed_calls <= 1
        /\ loc[t].store_queries <= 1
        /\ loc[t].gen_requests <= 1
        /\ loc[t].gen_requests > 0
              => /\ loc[t].store_queries = 1
                 /\ loc[t].store # None
                 /\ loc[t].context # <<>>
        /\ pc[t] = "generate" => loc[t].context # <<>>

\* a call whose single generation request timed out has returned
C6_Witness ==
    /\ Returned(1)
    /\ loc[1].gen = Some(G_TIMEOUT)
    /\ loc[1].gen_requests = 1
    /\ loc[1].store_queries = 1

\* ------------------------------------------------------------------------
\* C7 (SpecRetrieve): the sources retrieve_documents returns hold exactly
\* one entry per distinct site among the hits, each built from the first
\* hit of its site, in the order of those first hits.
\* ------------------------------------------------------------------------
SiteOfHit(results, i) == Get(results.documents[i].meta, "site", "Sans titre")

FirstHits(results) ==
    {i \in 1..Len(results.documents) :
        \A j \in 1..(i - 1) : SiteOfHit(results, j) # SiteOfHit(results, i)}

NthFirstHit(results, k) ==
    CHOOSE i \in FirstHits(results) :
        Cardinality({j \in FirstHits(results) : j < i}) = k - 1

C7_OneSourcePerSite ==
    rd.out # None =>
        LET sources == rd.out[1].sources
            sites   == {SiteOfHit(rd.results, i) : i \in 1..Len(rd.results.documents)}
        IN  /\ Len(sources) = Cardinality(sites)
            /\ {sources[k].site : k \in 1..Len(sources)} = sites
            /\ \A k \in 1..Len(sources) :
                 LET i == NthFirstHit(rd.results, k)
                 IN  /\ sources[k].site = SiteOfHit(rd.results, i)
                     /\ sources[k].ville = rd.results.documents[i].meta.ville
                     /\ sources[k].source = rd.results.documents[i].meta.source

\* five hits of three sites, a site coming back after another one
C7_Witness ==
    /\ rd.out # None
    /\ Len(rd.results.documents) = 5
    /\ SiteOfHit(rd.results, 1) = "Dougga"
    /\ SiteOfHit(rd.results, 2) = "Carthage"
    /\ SiteOfHit(rd.results, 3) = "Dougga"
    /\ SiteOfHit(rd.results, 4) = "El Jem"
    /\ SiteOfHit(rd.results, 5) = "Carthage"
    /\ Len(rd.out[1].sources) = 3

\* ------------------------------------------------------------------------
\* C8 (Spec): the messages built for a call are one system message, then
\* the last min(len(history), MAX_HISTORY_MESSAGES) turns of the history
\* as it was before the exchange, in order and with role and content
\* unchanged, then one user message holding the context and the query: 2 to
\* MAX_HISTORY_MESSAGES + 2 messages.
\* ------------------------------------------------------------------------
C8_MessagesShape ==
    \A t \in Threads :
        loc[t].messages # <<>> =>
            LET m == loc[t].messages
                h == loc[t].history0
                n == IF Len(h) < MAX_HISTORY_MESSAGES THEN Len(h) ELSE MAX_HISTORY_MESSAGES
            IN  /\ Len(m) = n + 2
                /\ Len(m) >= 2 /\ Len(m) <= MAX_HISTORY_MESSAGES + 2
                /\ m[1] = [role |-> "system", content |-> system_prompt]
                /\ \A i \in 1..n : m[1 + i] = h[Len(h) - n + i]
                /\ m[n + 2].role = "user"
                /\ Contains(m[n + 2].content, loc[t].context)
                /\ Contains(m[n + 2].content, loc[t].query)

\* a call that began with twelve turns, not all alike, built eight messages
C8_Witness ==
    /\ Returned(1)
    /\ Len(loc[1].history0) = MAX_HISTORY_MESSAGES * 2
    /\ loc[1].history0[6] # loc[1].history0[12]
    /\ Len(loc[1].messages) = MAX_HISTORY_MESSAGES + 2

\* ------------------------------------------------------------------------
\* C9 (SpecSanitize): the string sanitize_input returns has at most
\* MAX_INPUT_LENGTH characters, no NUL character and no two adjacent
\* whitespace characters, and its only whitespace character is the space.
\* ------------------------------------------------------------------------
C9_SanitizedShape ==
    san.out # None =>
        LET o == san.out[1]
        IN  /\ Len(o) <= MAX_INPUT_LENGTH
            /\ \A i \in 1..Len(o) : o[i] # NUL
            /\ \A i \in 1..Len(o) : IsSpace(o[i]) => o[i] = " "
            /\ \A i \in 1..(Len(o) - 1) : ~(IsSpace(o[i]) /\ IsSpace(o[i + 1]))

\* an argument that is cut at MAX_INPUT_LENGTH, and in which a NUL stands
\* between two whitespace characters inside a word-to-word gap, was sanitized
C9_Witness ==
    /\ san.out # None
    /\ Len(Strip(san.arg.chars)) > MAX_INPUT_LENGTH
    /\ \E i \in 3..(MAX_INPUT_LENGTH - 2) :
         /\ san.arg.chars[i] = NUL
         /\ IsSpace(san.arg.chars[i - 1])
         /\ IsSpace(san.arg.chars[i + 1])
         /\ san.arg.chars[i - 2] = "b"
         /\ san.arg.chars[i + 2] = "a"
    /\ Len(san.out[1]) = MAX_INPUT_LENGTH - 2

\* ------------------------------------------------------------------------
\* C10 (SpecIngest): every staged record has the id
\* "{document_id}::chunk_{index}", index counting the document's chunks
\* from 0; no two staged records share an id; and a single document without
\* id that yields 3 chunks gets 0::chunk_0, 0::chunk_1, 0::chunk_2.
\* ------------------------------------------------------------------------
C10_ChunkIdsUnique ==
    /\ \A a \in 1..Len(to_add) :
         /\ to_add[a].id[1] = to_add[a].metadata.source_id
         /\ \/ to_add[a].id[2] = 0
            \/ /\ a > 1
               /\ to_add[a - 1].id = ChunkUid(to_add[a].id[1], to_add[a].id[2] - 1)
    /\ \A a, b \in 1..Len(to_add) : a # b => to_add[a].id # to_add[b].id
    /\ (ipc = "done" /\ corpus = <<[site |-> "Carthage", description |-> <<150, 150, 150>>]>>)
          => [a \in 1..Len(to_add) |-> to_add[a].id]
                = <<ChunkUid(0, 0), ChunkUid(0, 1), ChunkUid(0, 2)>>

\* the ids of the records document d staged, in a run that staged ids with
\* the per-document counts doc_counts
IdsOfDoc(ids, counts, d) ==
    SubSeq(ids, SumSeq(SubSeq(counts, 1, d - 1)) + 1, SumSeq(SubSeq(counts, 1, d)))

\* ------------------------------------------------------------------------
\* C11 (SpecReingest): when main() has run over a corpus and then again
\* over the same corpus with the description of one document replaced,
\* every other document's chunks have, in the second run's staged records,
\* the ids they had in the first run's.
\* ------------------------------------------------------------------------
C11_OtherDocumentsKeepIds ==
    (prev.ran /\ ipc \in {"insert", "done", "failed"})
        => \A d \in 1..Len(corpus) :
              d # prev.edited
                 => IdsOfDoc(IdsOf(to_add), doc_counts, d)
                       = IdsOfDoc(prev.ids, prev.doc_counts, d)

\* ------------------------------------------------------------------------
\* C12 (SpecBatch): once the empty collection is created the records of
\* the collection that was there before are gone; while the batch loop
\* runs, the collection holds the first batch_i staged records, in staging
\* order, batch_i being a multiple of BATCH_SIZE; and when the run has
\* completed the collection exists and holds exactly the staged records,
\* in staging order, for 0, fewer than, exactly and more than BATCH_SIZE
\* staged records.
\* ------------------------------------------------------------------------
C12_CollectionIsWhatWasStaged ==
    /\ ipc \in {"docs", "insert", "done"}
          => /\ collection.exists
             /\ \A a \in 1..Len(collection.records) :
                    collection.records[a] # OldRecord
    /\ ipc = "docs" => collection.records = <<>>
    /\ ipc = "insert"
          => /\ batch_i % BATCH_SIZE = 0
             /\ collection.records = SubSeq(to_add, 1, batch_i)
    /\ ipc = "done" => collection.records = to_add

\* chunk next begins with the last overlap words of chunk (with all of its
\* words when it has fewer)
BeginsWithSeed(chunk, next, overlap) ==
    /\ Len(next) >= Len(LastN(chunk, overlap))
    /\ Take(next, Len(LastN(chunk, overlap))) = LastN(chunk, overlap)

\* ------------------------------------------------------------------------
\* C13 as claimed (SpecChunk): for every text, target_words and overlap > 0
\* for which text_to_chunks returns at least two chunks, each returned
\* chunk after the first begins with the last overlap words of the returned
\* chunk before it.
\* ------------------------------------------------------------------------
C13_ReturnedChunksOverlap ==
    (ck.out # None /\ ck.overlap > 0)
        => \A i \in 1..(Len(ck.out[1]) - 1) :
              BeginsWithSeed(ck.out[1][i], ck.out[1][i + 1], ck.overlap)

\* ------------------------------------------------------------------------
\* C13 amended (SpecChunk): the same, for every target_words and every
\* overlap of at least MIN_CHUNK_WORDS - 1 (the default overlap is one):
\* then no chunk built between two returned chunks is short enough to be
\* filtered out.
\* ------------------------------------------------------------------------
C13_LongOverlapChunksOverlap ==
    (ck.out # None /\ ck.overlap >= MIN_CHUNK_WORDS - 1)
        => \A i \in 1..(Len(ck.out[1]) - 1) :
              BeginsWithSeed(ck.out[1][i], ck.out[1][i + 1], ck.overlap)

\* three chunks were returned with an overlap of MIN_CHUNK_WORDS - 1, the
\* first longer and the second shorter than CHUNK_OVERLAP_WORDS
C13_Witness ==
    /\ ck.out # None
    /\ ck.overlap = MIN_CHUNK_WORDS - 1
    /\ Len(ck.out[1]) = 3
    /\ Len(ck.out[1][1]) > ck.overlap
    /\ ck.out[1][2] # ck.out[1][1]

\* the records document d of the corpus staged
RecordsOfDoc(d) ==
    SubSeq(to_add, SumSeq(SubSeq(doc_counts, 1, d - 1)) + 1,
           SumSeq(SubSeq(doc_counts, 1, d)))

\* ------------------------------------------------------------------------
\* C14 (SpecIngest): every record a document has staged holds a chunk of at
\* least MIN_CHUNK_WORDS words, unless text_to_chunks gave no chunk for the
\* document's enriched text and the record is the only one of the document
\* and holds the enriched text; and every record of the collection, once
\* it is created, is a staged record.
\* ------------------------------------------------------------------------
C14_PersistedChunksLongEnough ==
    /\ \A d \in 1..Len(doc_counts) :
          \A a \in 1..doc_counts[d] :
             \/ Len(RecordsOfDoc(d)[a].document) >= MIN_CHUNK_WORDS
             \/ /\ text_to_chunks(create_rich_text(corpus[d]),
                                   CHUNK_WORD_TARGET, CHUNK_OVERLAP_WORDS) = <<>>
                /\ doc_counts[d] = 1
                /\ RecordsOfDoc(d)[a].document = create_rich_text(corpus[d])
    /\ ipc \in {"insert", "done", "failed"}
          => \A a \in 1..Len(collection.records) :
                \E b \in 1..Len(to_add) : collection.records[a] = to_add[b]

\* a run has completed and persisted its records, among them the fallback
\* chunk of a document of 8 words and the one chunk left of a document that
\* was split into a chunk of 8 words and a longer one
C14_Witness ==
    /\ ipc = "done"
    /\ collection.records = to_add
    /\ \E d \in 1..Len(doc_counts) :
          /\ doc_counts[d] = 1
          /\ Len(RecordsOfDoc(d)[1].document) < MIN_CHUNK_WORDS
    /\ \E d \in 1..Len(doc_counts) :
          /\ doc_counts[d] = 1
          /\ Len(RecordsOfDoc(d)[1].document) >= MIN_CHUNK_WORDS
          /\ Len(ChunkLoop(SplitSentences(create_rich_text(corpus[d])), 1,
                           <<>>, <<>>, 0, CHUNK_WORD_TARGET,
                           CHUNK_OVERLAP_WORDS)) = 2

\* the loop over docs has dealt with document d
Processed(d) == d \in 1..Len(doc_counts)

\* ------------------------------------------------------------------------
\* C15 as claimed (SpecIngest): every document the loop has dealt with has
\* staged at least one record, and exactly one, holding its enriched text,
\* when text_to_chunks gives no chunk for that text (a text without any
\* sentence included).
\* ------------------------------------------------------------------------
C15_EveryDocumentContributes ==
    \A d \in 1..Len(corpus) :
        Processed(d)
           => /\ doc_counts[d] >= 1
              /\ text_to_chunks(create_rich_text(corpus[d]),
                                CHUNK_WORD_TARGET, CHUNK_OVERLAP_WORDS) = <<>>
                    => /\ doc_counts[d] = 1
                       /\ RecordsOfDoc(d)[1].document = create_rich_text(corpus[d])

\* ------------------------------------------------------------------------
\* C15 amended (SpecIngest): a document whose enriched text is empty (it
\* has no sentence) is skipped and stages no record; every other document
\* the loop has dealt with has staged at least one record, and exactly
\* one, holding its enriched text, when text_to_chunks gives no chunk.
\* ------------------------------------------------------------------------
C15_NonEmptyDocumentContributes ==
    \A d \in 1..Len(corpus) :
        Processed(d)
           => IF create_rich_text(corpus[d]) = <<>>
              THEN doc_counts[d] = 0
              ELSE /\ doc_counts[d] >= 1
                   /\ text_to_chunks(create_rich_text(corpus[d]),
                                     CHUNK_WORD_TARGET, CHUNK_OVERLAP_WORDS) = <<>>
                         => /\ doc_counts[d] = 1
                            /\ RecordsOfDoc(d)[1].document
                                  = create_rich_text(corpus[d])

\* the loop has ended over a corpus with a document without text, one of 8
\* words that staged its fallback chunk, and one that staged three chunks
C15_Witness ==
    /\ ipc \in {"insert", "done"}
    /\ \E d \in 1..Len(corpus) :
          /\ create_rich_text(corpus[d]) = <<>>
          /\ doc_counts[d] = 0
    /\ \E d \in 1..Len(corpus) :
          /\ Len(create_rich_text(corpus[d])) \in 1..(MIN_CHUNK_WORDS - 1)
          /\ doc_counts[d] = 1
    /\ \E d \in 1..Len(corpus) : doc_counts[d] = 3

\* ------------------------------------------------------------------------
\* C16 (SpecRetrieve): every source retrieve_documents returns has
\* relevance None when the store's answer carries no distances, and
\* otherwise round(1 - distance, 3) of the hit it was built from, a value
\* between 0 and 1 (0 and 1000 thousandths), a distance of 0 included.
\* ------------------------------------------------------------------------
C16_RelevanceFromDistance ==
    rd.out # None =>
        \A k \in 1..Len(rd.out[1].sources) :
            LET i == NthFirstHit(rd.results, k)
                relevance == rd.out[1].sources[k].relevance
                expected == Round3(10000 - rd.results.documents[i].distance)
            IN  IF ~rd.results.distances
                THEN relevance = None
                ELSE /\ relevance = Some(expected)
                     /\ expected \in 0..1000

\* the step with which call t returns from a completed exchange
ExchangeReturns(t) == pc[t] \in {"truncate", "assign"} /\ pc'[t] = "returned"

\* ------------------------------------------------------------------------
\* C17 as claimed (Spec): when an answer() call returns from a completed
\* exchange, conversation_history holds at most MAX_HISTORY_MESSAGES = 6
\* entries, the most recent ones of the list the two turns were appended
\* to.
\* ------------------------------------------------------------------------
C17_AtMostSixAfterExchange ==
    [][\A t \in SeqThreads :
          ExchangeReturns(t)
             => /\ Len(conversation_history') <= MAX_HISTORY_MESSAGES
                /\ conversation_history'
                      = LastN(conversation_history, Len(conversation_history'))]_vars

\* ------------------------------------------------------------------------
\* C17 amended (Spec): when an answer() call returns from a completed
\* exchange, conversation_history holds at most MAX_HISTORY_MESSAGES * 2 =
\* 12 entries: the whole list the two turns were appended to when that has
\* at most 12 entries, and else its 12 most recent entries.
\* ------------------------------------------------------------------------
C17_AtMostTwelveAfterExchange ==
    [][\A t \in SeqThreads :
          ExchangeReturns(t)
             => /\ Len(conversation_history') <= MAX_HISTORY_MESSAGES * 2
                /\ conversation_history'
                      = LastN(conversation_history, Len(conversation_history'))
                /\ Len(conversation_history) <= MAX_HISTORY_MESSAGES * 2
                      => conversation_history' = conversation_history
                /\ Len(conversation_history) > MAX_HISTORY_MESSAGES * 2
                      => Len(conversation_history') = MAX_HISTORY_MESSAGES * 2]_vars

\* a call that found 12 entries, the oldest ones loaded from a stored chat,
\* has returned; the history holds the other ten and the call's two turns
C17_Witness ==
    /\ Returned(1)
    /\ loc[1].gen # None
    /\ Len(loc[1].history0) = MAX_HISTORY_MESSAGES * 2
    /\ loc[1].history0[1] = [role |-> "assistant", content |-> <<"r", "old">>]
    /\ loc[1].kept = conversation_history
    /\ conversation_history
          = SubSeq(loc[1].history0, 3, MAX_HISTORY_MESSAGES * 2)
              \o <<[role |-> "user", content |-> loc[1].query],
                   [role |-> "assistant", content |-> loc[1].answer]>>

\* ------------------------------------------------------------------------
\* C18 (SpecBatch), the views a query can have while main() runs: the
\* collection deleted, the new collection still empty while records are
\* staged, and the collection holding the first batch only.
\* ------------------------------------------------------------------------
C18_SeenDeleted == seen # None /\ seen[1].at = "create" /\ ~seen[1].exists

C18_SeenEmpty ==
    /\ seen # None
    /\ seen[1].at \in {"docs", "insert"}
    /\ seen[1].exists
    /\ seen[1].ids = <<>>
    /\ ipc = "done"
    /\ to_add # <<>>

C18_SeenSomeBatches ==
    /\ seen # None
    /\ seen[1].at = "insert"
    /\ Len(seen[1].ids) = BATCH_SIZE
    /\ ipc = "done"
    /\ Len(to_add) > BATCH_SIZE

\* ------------------------------------------------------------------------
\* C18 (SpecBatch), queries that no run overlaps: a query made before
\* main() starts sees the records of the collection the last finished run
\* left; a query made after main() has completed sees every record that
\* run staged; and a query made after main() has died sees the records the
\* last finished run left.
\* ------------------------------------------------------------------------
C18_QuietQuerySeesFinishedRun ==
    seen # None =>
        /\ seen[1].at \in {"start", "failed"}
              => /\ seen[1].exists
                 /\ seen[1].ids = <<OldRecord.id>>
        /\ seen[1].at = "done"
              => /\ seen[1].exists
                 /\ seen[1].ids = IdsOf(to_add)

\* two user turns stand next to each other in the history
SomeUserTurnUnanswered ==
    \E i \in 1..(Len(conversation_history) - 1) :
        /\ conversation_history[i].role = "user"
        /\ conversation_history[i + 1].role = "user"

\* the turns of the history a prompt was built from: the messages between
\* the system message and the final user message
PromptHistory(t) == SubSeq(loc[t].messages, 2, Len(loc[t].messages) - 1)

\* ------------------------------------------------------------------------
\* C19 (SpecConcurrent): as long as no answer() call has begun while
\* another was in flight, no user turn of the history is followed by
\* another user turn, and whenever no call is in flight the history is the
\* one the completed exchanges give when each is appended whole and cut to
\* 12, in the order of the calls: no turn is out of place and none is lost.
\* (That calls which do overlap can break both is what C19_Witness shows.)
\* ------------------------------------------------------------------------
C19_SequentialCallsKeepHistory ==
    ~overlapped
        => /\ ~SomeUserTurnUnanswered
           /\ NoCallInFlight => conversation_history = serial

\* two overlapping calls have returned: both prompts were built from the
\* same 12-entry history, the user turn of caller 1 is followed by the user
\* turn of caller 2, and the answer caller 2 appended is gone (the history
\* ends with the three other turns)
C19_Witness ==
    /\ overlapped
    /\ \A t \in Threads : Returned(t) /\ loc[t].gen # None
    /\ Len(loc[1].history0) = MAX_HISTORY_MESSAGES * 2
    /\ PromptHistory(1) = HistoryWindow(loc[1].history0)
    /\ PromptHistory(2) = PromptHistory(1)
    /\ Len(conversation_history) = MAX_HISTORY_MESSAGES * 2
    /\ LastN(conversation_history, 3)
          = <<PairOf(1)[1], PairOf(2)[1], PairOf(1)[2]>>
    /\ conversation_history # serial

\* the step with which call t returns the validation error (a step of
\* AnswerBegin) or the nothing-found response (a step of AnswerRetrieve)
EarlyReturns(t) ==
    /\ pc'[t] = "returned"
    /\ pc[t] \notin {"truncate", "assign"}
    /\ <<pc, loc, ret>>' # <<pc, loc, ret>>

\* user, assistant, user, assistant, ...
Alternates(history) ==
    /\ Len(history) % 2 = 0
    /\ \A i \in 1..Len(history) :
          history[i].role = IF i % 2 = 1 THEN "user" ELSE "assistant"

\* ------------------------------------------------------------------------
\* C20 (SpecFresh): a call that has reached the generation step, whether
\* generation gave an answer or an error message, returns that text and
\* leaves as history the one it found followed by the user turn holding
\* the sanitized query and the assistant turn holding the returned text,
\* cut to its 12 most recent entries; a call that returns the validation
\* error or the nothing-found response leaves the history as it is; and
\* whenever no call is in flight the history has even length and
\* alternates user, assistant.
\* ------------------------------------------------------------------------
C20_HistoryUpdateRule ==
    /\ [][\A t \in SeqThreads :
            /\ ExchangeReturns(t)
                  => /\ loc[t].gen # None
                     /\ ret'[t][1].answer = loc[t].answer
                     /\ loc[t].query = sanitize_input(loc[t].arg)
                     /\ conversation_history'
                           = LastN(loc[t].history0
                                     \o <<[role |-> "user", content |-> loc[t].query],
                                          [role |-> "assistant",
                                           content |-> ret'[t][1].answer]>>,
                                   MAX_HISTORY_MESSAGES * 2)
            /\ EarlyReturns(t)
                  => /\ ret'[t][1].answer \in {MSG_INVALID, MSG_NOTHING_FOUND}
                     /\ conversation_history' = conversation_history]_vars
    /\ [](NoCallInFlight => Alternates(conversation_history))

\* a call that found a full history and whose generation request failed has
\* returned the connection-error message; the history ends with the
\* sanitized query and that message, and begins with a user turn
C20_Witness ==
    /\ Returned(1)
    /\ loc[1].gen = Some(G_CONNECTION)
    /\ ret[1][1].answer = MSG_CONNECTION
    /\ Len(loc[1].history0) = MAX_HISTORY_MESSAGES * 2
    /\ loc[1].arg.chars # loc[1].query
    /\ LastN(conversation_history, 2)
          = <<[role |-> "user", content |-> loc[1].query],
              [role |-> "assistant", content |-> MSG_CONNECTION]>>
    /\ conversation_history
          = SubSeq(loc[1].history0, 3, Len(loc[1].history0))
              \o LastN(conversation_history, 2)
    /\ Alternates(conversation_history)


\* ------------------------------------------------------------------------
\* C21 (SpecCall): the query a call takes past validation, to the embedder
\* and the store, holds a character that is not whitespace; and a call
\* whose argument is a string of whitespace and NUL characters only has
\* returned the validation-error response without an embedding, store or
\* generation call.
\* ------------------------------------------------------------------------
C21_BlankQueryNeverRetrieved ==
    \A t \in Threads :
        /\ (Running(t) /\ (pc[t] = "retrieve" \/ loc[t].embed_calls > 0))
              => \E i \in 1..Len(loc[t].query) : ~IsSpace(loc[t].query[i])
        /\ (/\ Running(t)
            /\ loc[t].arg.kind = "str"
            /\ \A i \in 1..Len(loc[t].arg.chars) :
                   IsSpace(loc[t].arg.chars[i]) \/ loc[t].arg.chars[i] = NUL)
              => /\ Returned(t)
                 /\ ret[t] = Some(Response(MSG_INVALID, <<>>, 0, 0))
                 /\ loc[t].embed_calls = 0
                 /\ loc[t].store_queries = 0
                 /\ loc[t].gen_requests = 0

\* the chunks the loop built, before the minimum-length filter
BuiltChunks == ChunkLoop(SplitSentences(ck.text), 1, <<>>, <<>>, 0, ck.target_words, ck.overlap)

\* word w of the text occurs in chunk c
WordIn(w, c) == \E j \in 1..Len(c) : c[j] = w

\* ------------------------------------------------------------------------
\* C22 (SpecChunk): for overlap >= MIN_CHUNK_WORDS and target_words >=
\* MIN_CHUNK_WORDS, whenever text_to_chunks returns at least one chunk,
\* every word of every sentence of the text occurs in at least one
\* returned chunk, also when the minimum-length filter dropped a chunk.
\* ------------------------------------------------------------------------
C22_NoWordLost ==
    (/\ ck.out # None
     /\ ck.overlap >= MIN_CHUNK_WORDS
     /\ ck.target_words >= MIN_CHUNK_WORDS
     /\ ck.out[1] # <<>>)
        => \A i \in 1..Len(ck.text) :
              \E c \in 1..Len(ck.out[1]) : WordIn(ck.text[i], ck.out[1][c])

\* two chunks were returned after the filter dropped a short first chunk
C22_Witness ==
    /\ ck.out # None
    /\ ck.overlap >= MIN_CHUNK_WORDS
    /\ ck.target_words >= MIN_CHUNK_WORDS
    /\ Len(ck.out[1]) = 2
    /\ Len(BuiltChunks) > Len(ck.out[1])
    /\ Len(BuiltChunks[1]) < MIN_CHUNK_WORDS

\* the chunks built from the first k sentences of the text; the last of
\* them is current_chunk, whose length is current_word_count
BuiltAfter(k) == ChunkLoop(SubSeq(SplitSentences(ck.text), 1, k), 1, <<>>, <<>>, 0, ck.target_words, ck.overlap)

\* chunk is sentence s after a seed that is empty or the overlap words of before
SeedThenSentence(chunk, s, before) ==
    /\ Len(s) <= Len(chunk)
    /\ LastN(chunk, Len(s)) = s
    /\ LET seed == Take(chunk, Len(chunk) - Len(s))
       IN  /\ Len(seed) <= ck.overlap
           /\ seed = <<>> \/ seed = OverlapWords(before, ck.overlap)

\* ------------------------------------------------------------------------
\* C23 (SpecChunk): a chunk built by text_to_chunks with more than
\* target_words words is one sentence after at most the overlap seed of
\* the chunk built before it; and a current chunk whose word count exceeds
\* target_words receives no further sentence: the next sentence opens a
\* new chunk.
\* ------------------------------------------------------------------------
C23_LongChunkIsOneSentence ==
    ck.out # None =>
        LET sentences == SplitSentences(ck.text)
        IN  /\ \A i \in 1..Len(BuiltChunks) :
                  Len(BuiltChunks[i]) > ck.target_words
                     => \E k \in 1..Len(sentences) :
                           SeedThenSentence(BuiltChunks[i], sentences[k],
                                            IF i = 1 THEN <<>> ELSE BuiltChunks[i - 1])
            /\ \A k \in 1..(Len(sentences) - 1) :
                  Len(BuiltAfter(k)[Len(BuiltAfter(k))]) > ck.target_words
                     => Len(BuiltAfter(k + 1)) = Len(BuiltAfter(k)) + 1

\* three chunks were built with a seed longer than target_words: the second
\* is the seed and one sentence, and the next sentence opened the third
C23_Witness ==
    /\ ck.out # None
    /\ ck.overlap > ck.target_words
    /\ Len(BuiltChunks) = 3
    /\ Len(BuiltChunks[1]) > ck.target_words
    /\ Len(BuiltChunks[2]) > Len(BuiltChunks[1])

\* ------------------------------------------------------------------------
\* C24 (SpecUi): after any sequence of questions asked in one chat through
\* the chat input, each persisted with add_message, load_chat gives the
\* chatbot a history whose last MAX_HISTORY_MESSAGES turns are the last
\* MAX_HISTORY_MESSAGES turns of the history the session held in memory,
\* also when questions ended in the validation-error or the nothing-found
\* response.
\* ------------------------------------------------------------------------
C24_ReloadKeepsPromptHistory ==
    held # None
        => LastN(conversation_history, MAX_HISTORY_MESSAGES)
              = LastN(held[1], MAX_HISTORY_MESSAGES)

====
